---- MODULE Spec2Model ----
(***************************************************************************)
(* Transaction-and-balance engine of backend/server.py.                    *)
(*                                                                         *)
(* The store (MongoDB collections users, categories, transactions) is the  *)
(* shared state.  Every HTTP request is a process whose steps are the      *)
(* awaited store operations of its handler; the code between two awaits is *)
(* local and is folded into the step that precedes it.  Amounts are        *)
(* integers (minor units): float rounding is not modelled.                 *)
(***************************************************************************)
EXTENDS Integers, Sequences, FiniteSets, TLC

VARIABLES
  users,         \* db.users: id -> document
  categories,    \* db.categories: id -> document
  transactions,  \* db.transactions: documents in insertion order, id = position
  requests,      \* the HTTP requests: program counter and locals of each handler
  overlap        \* history: two update/delete requests on one transaction overlapped

vars == <<users, categories, transactions, requests, overlap>>

(* ------------------------------ bounds -------------------------------- *)

\* Number of requests of one run (each slot is one HTTP request).
MaxRequests == 2

\* Number of transactions in the store a report is computed from.
MaxStored == 2

\* Largest amount a payload carries.
MaxAmount == 2

\* Instants of one month that the clock of the model tells apart.
MonthTicks == 2

\* Largest UTC offset of a transaction_date, in ticks (east and west).
MaxOffset == 1

(* ------------------------------ domains ------------------------------- *)

UserIds == {"u1", "u2"}

CategoryIds == {"c1", "c2"}

\* Python's None for an Optional[str] field.
None == "None"

\* TransactionType
TransactionType == {"income", "expense", "transfer"}

Amounts == 1..MaxAmount

Requests == 1..MaxRequests

\* An id no document has, and the empty document (find_one returning None).
NoId == 0

NoDoc == <<>>

\* category_id values a client may send: null, the empty string, an id.
CategoryInputs == {None, ""} \cup CategoryIds

\* A query parameter that is not sent (month: Optional[int] = Query(None, ge=1)).
Omitted == 0

\* Months and years a report is asked for: a December, the January after it.
Months == {1, 12}

Years == {2024, 2025}

\* The instant (in ticks since year 0, UTC) at which a month begins.
FirstOfMonth(year, month) == (year * 12 + (month - 1)) * MonthTicks

Offsets == (0 - MaxOffset)..MaxOffset

\* A datetime with tzinfo: an instant and the UTC offset it is written in.
\* The values sent run from the last tick of November 2024 to the first
\* tick of February 2025.
DateInputs ==
  [instant : (FirstOfMonth(2024, 12) - 1)..FirstOfMonth(2025, 2), offset : Offsets]

\* datetime.now(timezone.utc): the clock stands at the start of December 2024.
Now == [instant |-> FirstOfMonth(2024, 12), offset |-> 0]

\* TransactionCreate payloads.
TransactionCreate ==
  [amount : Amounts, type : TransactionType, category_id : CategoryInputs,
   transaction_date : DateInputs]

\* TransactionUpdate payloads: a field that is None is absent from the record.
TransactionUpdate ==
  { a @@ t @@ c @@ d :
      a \in {<<>>} \cup {[amount |-> x] : x \in Amounts},
      t \in {<<>>} \cup {[type |-> x] : x \in TransactionType},
      c \in {<<>>} \cup {[category_id |-> x] : x \in {"", "c2"}},
      d \in {<<>>} \cup {[transaction_date |-> x] : x \in DateInputs} }

\* Amounts a client may send, valid or not.
AmountInputs == (0 - MaxAmount)..MaxAmount

\* Payloads with any amount (no category).
CreateAnyAmount ==
  [amount : AmountInputs, type : TransactionType, category_id : {None},
   transaction_date : {Now}]

UpdateAnyAmount ==
  { a @@ t : a \in {<<>>} \cup {[amount |-> x] : x \in AmountInputs},
             t \in {<<>>} \cup {[type |-> x] : x \in TransactionType} }

(* ------------------------- helpers of the code ------------------------ *)

\* The name a category is created with.
CategoryName(c) == IF c = "c1" THEN "Food" ELSE "Rent"

\* Python truthiness of an Optional[str].
Truthy(s) == s # None /\ s # ""

\* Mutant: the lookup does not filter on the owner.
FindCategory_AnyOwner(cid, uid) ==
  /\ cid \in DOMAIN categories
  /\ categories[cid].is_active

\* db.categories.find_one({"id", "user_id", "is_active": True})
FindCategory(cid, uid) ==
  /\ cid \in DOMAIN categories
  /\ categories[cid].user_id = uid
  /\ categories[cid].is_active

\* Mutant: the lookup does not filter on the owner.
FindTransaction_AnyOwner(tid, uid) ==
  IF tid \in 1..Len(transactions) /\ transactions[tid].is_active
  THEN transactions[tid]
  ELSE NoDoc

\* Mutant: the lookup does not filter on is_active.
FindTransaction_Deleted(tid, uid) ==
  IF tid \in 1..Len(transactions) /\ transactions[tid].user_id = uid
  THEN transactions[tid]
  ELSE NoDoc

\* db.transactions.find_one({"id", "user_id", "is_active": True})
FindTransaction(tid, uid) ==
  IF /\ tid \in 1..Len(transactions)
     /\ transactions[tid].user_id = uid
     /\ transactions[tid].is_active
  THEN transactions[tid]
  ELSE NoDoc

\* Mutant: the bound is inclusive (ge=0).
ValidAmount_NonNegative(amount) == amount >= 0

\* amount: float = Field(..., gt=0)
ValidAmount(amount) == amount > 0

\* Pydantic validation of the request body (an absent Optional field passes).
ValidPayload(payload) ==
  "amount" \in DOMAIN payload => ValidAmount(payload.amount)

\* The place of an offset suffix in the order of strings: "+00:00" < "+01:00"
\* < ... < "-01:00" < "-02:00" < ... ('+' sorts before '-').
OffsetRank(offset) == IF offset >= 0 THEN offset ELSE MaxOffset - offset

\* Mutant: the datetime is converted to UTC before it is written.
IsoFormat_Utc(dt) ==
  LET month_index == dt.instant \div MonthTicks
  IN  <<month_index \div 12, (month_index % 12) + 1, dt.instant % MonthTicks, 0>>

\* datetime.isoformat(): the wall-clock fields of the datetime in its own
\* offset, followed by the offset.  The string is the tuple <<year, month,
\* tick, offset suffix>>; strings compare as these tuples do.
IsoFormat(dt) ==
  LET local == dt.instant + dt.offset
      month_index == local \div MonthTicks
  IN  <<month_index \div 12, (month_index % 12) + 1, local % MonthTicks,
        OffsetRank(dt.offset)>>

\* String comparison ($lt) of two isoformat strings.
StringLess(a, b) ==
  \E i \in 1..Len(a) :
    /\ a[i] < b[i]
    /\ \A j \in 1..(i - 1) : a[j] = b[j]

\* String comparison ($gte).
StringGte(a, b) == ~StringLess(a, b)

\* update_data = {k: v for k, v in model_dump().items() if v is not None},
\* with update_data['transaction_date'] replaced by its isoformat().
UpdateData(payload) ==
  IF "transaction_date" \in DOMAIN payload
  THEN [payload EXCEPT !.transaction_date = IsoFormat(@)]
  ELSE payload

\* Mutant: the document is replaced, a category that is not supplied is cleared.
SetFields_ClearsCategory(doc, update_data) ==
  [k \in DOMAIN doc |->
     IF k \in DOMAIN update_data THEN update_data[k]
     ELSE IF k = "category_id" THEN None ELSE doc[k]]

\* {"$set": update_data} on one document, and dict.update on the local copy.
SetFields(doc, update_data) ==
  [k \in DOMAIN doc |-> IF k \in DOMAIN update_data THEN update_data[k] ELSE doc[k]]

\* Mutant: the write also marks the document active again.
UpdateOneTransaction_Reactivates(tid, fields) ==
  [i \in 1..Len(transactions) |->
     IF transactions[i].id = tid
     THEN SetFields(transactions[i], fields @@ [is_active |-> TRUE])
     ELSE transactions[i]]

\* db.transactions.update_one({"id": transaction_id}, {"$set": fields})
UpdateOneTransaction(tid, fields) ==
  [i \in 1..Len(transactions) |->
     IF transactions[i].id = tid THEN SetFields(transactions[i], fields)
     ELSE transactions[i]]

\* Mutant: the transfer case is forgotten.
BalanceChange_NoTransfer(amount, type) ==
  IF type = "income" THEN amount ELSE -amount

\* create_transaction: balance_change
BalanceChange(amount, type) ==
  IF type = "transfer" THEN 0
  ELSE IF type = "income" THEN amount ELSE -amount

\* Mutant: a transfer counts like an income.
BalanceEffect_TransferCounts(amount, type) ==
  IF type = "expense" THEN -amount ELSE amount

\* Mutant: the sign of an expense is dropped.
BalanceEffect_Unsigned(amount, type) ==
  IF type = "transfer" THEN 0 ELSE amount

\* update_transaction: old_balance_effect / new_balance_effect
BalanceEffect(amount, type) ==
  IF type = "income" THEN amount
  ELSE IF type = "expense" THEN -amount ELSE 0

\* Mutant: the reversal of an expense has the sign of the reversal of an income.
BalanceReversal_Negated(amount, type) ==
  IF type = "transfer" THEN 0 ELSE -amount

\* Mutant: the reversal repeats the effect instead of undoing it.
BalanceReversal_Repeats(amount, type) ==
  IF type = "income" THEN amount
  ELSE IF type = "expense" THEN -amount ELSE 0

\* delete_transaction: balance_reversal
BalanceReversal(amount, type) ==
  IF type = "income" THEN -amount
  ELSE IF type = "expense" THEN amount ELSE 0

\* Mutant: a read-modify-write of the whole balance, from the user document the
\* request read when it was authenticated ({"$set": {"total_balance": old + d}}).
IncTotalBalance_ReadModifyWrite(r) ==
  [users EXCEPT ![requests[r].current_user.id].total_balance =
                    requests[r].current_user.total_balance + requests[r].balance_change]

\* db.users.update_one({"id": current_user['id']}, {"$inc": {"total_balance": d}})
IncTotalBalance(r) ==
  [users EXCEPT ![requests[r].current_user.id].total_balance =
                    @ + requests[r].balance_change]

(* ------------------------------- state -------------------------------- *)

IdleRequest ==
  [pc |-> "idle", op |-> "none", current_user |-> NoDoc, data |-> NoDoc,
   transaction_id |-> NoId, transaction |-> NoDoc, old |-> NoDoc,
   balance_change |-> 0, status |-> 0, crashed_at |-> "none",
   query |-> NoDoc, found |-> NoDoc, response |-> NoDoc]

\* The transactions collection when the run starts: empty, or holding one
\* transaction that user u1 created before (any amount, any type).
InitialTransactions ==
  {<<>>} \cup
  { <<[id |-> 1, user_id |-> "u1", amount |-> a, type |-> t,
       category_id |-> None, transaction_date |-> IsoFormat(Now),
       is_active |-> TRUE]>> :
      a \in Amounts, t \in TransactionType }

\* Two registered users (User.total_balance = 0.0) with one category each; the
\* balance of u1 is what the creation of the stored transaction left.
Init ==
  /\ transactions \in InitialTransactions
  /\ users = [u \in UserIds |->
       [total_balance |->
          IF u = "u1" /\ transactions # <<>>
          THEN BalanceChange(transactions[1].amount, transactions[1].type)
          ELSE 0]]
  /\ categories = [c \in CategoryIds |->
                     [user_id |-> IF c = "c1" THEN "u1" ELSE "u2",
                      name |-> CategoryName(c), is_active |-> TRUE]]
  /\ requests = [r \in Requests |-> IdleRequest]
  /\ overlap = FALSE

\* Transactions a report may find in the store.  The plain ones are active
\* expenses of u1 dated now, with or without a category; each of the others
\* differs from a plain one in the one respect a report filters on: its owner,
\* its soft-delete flag, its type, or its date (the first instant of next month).
ReportDocs ==
  LET plain(a, c) ==
        [user_id |-> "u1", amount |-> a, type |-> "expense", category_id |-> c,
         transaction_date |-> IsoFormat(Now), is_active |-> TRUE]
  IN  { plain(a, c) : a \in Amounts, c \in {None, "", "c1"} }
      \cup { [plain(a, None) EXCEPT !.user_id = "u2"] : a \in Amounts }
      \cup { [plain(a, None) EXCEPT !.is_active = FALSE] : a \in Amounts }
      \cup { [plain(a, None) EXCEPT !.type = t] :
                a \in Amounts, t \in {"income", "transfer"} }
      \cup { [plain(a, None) EXCEPT !.transaction_date =
                IsoFormat([instant |-> FirstOfMonth(2025, 1), offset |-> 0])] :
                a \in Amounts }

\* What the creations of the first n stored transactions added to the balance
\* of uid (a soft-deleted one was reversed).
RECURSIVE BalanceAfter(_, _, _)
BalanceAfter(txs, uid, n) ==
  IF n = 0 THEN 0
  ELSE BalanceAfter(txs, uid, n - 1)
       + (IF txs[n].user_id = uid /\ txs[n].is_active
          THEN BalanceChange(txs[n].amount, txs[n].type) ELSE 0)

\* A store left by earlier requests: up to MaxStored transactions, the
\* balances that go with them, both categories active.
InitReport ==
  /\ \E n \in 0..MaxStored : \E docs \in [1..n -> ReportDocs] :
       transactions = [i \in 1..n |-> [id |-> i] @@ docs[i]]
  /\ users = [u \in UserIds |->
       [total_balance |-> BalanceAfter(transactions, u, Len(transactions))]]
  /\ categories = [c \in CategoryIds |->
                     [user_id |-> IF c = "c1" THEN "u1" ELSE "u2",
                      name |-> CategoryName(c), is_active |-> TRUE]]
  /\ requests = [r \in Requests |-> IdleRequest]
  /\ overlap = FALSE

\* A store in which every case of the lookup occurs for u1: transaction 1 is
\* an active transaction of u1 (any amount, any type), transaction 2 an active
\* transaction of u2, transaction 3 a soft-deleted transaction of u1.
InitLookup ==
  /\ \E a \in Amounts, t \in TransactionType :
       transactions =
         <<[id |-> 1, user_id |-> "u1", amount |-> a, type |-> t,
            category_id |-> None, transaction_date |-> IsoFormat(Now),
            is_active |-> TRUE],
           [id |-> 2, user_id |-> "u2", amount |-> MaxAmount, type |-> "income",
            category_id |-> None, transaction_date |-> IsoFormat(Now),
            is_active |-> TRUE],
           [id |-> 3, user_id |-> "u1", amount |-> MaxAmount, type |-> "income",
            category_id |-> None, transaction_date |-> IsoFormat(Now),
            is_active |-> FALSE]>>
  /\ users = [u \in UserIds |->
       [total_balance |-> BalanceAfter(transactions, u, Len(transactions))]]
  /\ categories = [c \in CategoryIds |->
                     [user_id |-> IF c = "c1" THEN "u1" ELSE "u2",
                      name |-> CategoryName(c), is_active |-> TRUE]]
  /\ requests = [r \in Requests |-> IdleRequest]
  /\ overlap = FALSE

InFlight(r) == requests[r].pc \notin {"idle", "done", "crashed"}

\* Slots are taken in order: request r arrives after requests 1..r-1.
MayBegin(r) ==
  /\ requests[r].pc = "idle"
  /\ \A q \in 1..(r - 1) : requests[q].pc # "idle"

\* get_current_user: the user document as read when the request is authenticated.
CurrentUser(u) == [id |-> u, total_balance |-> users[u].total_balance]

\* The response is sent: the handler's locals are gone, what stays is the record
\* of the request (who asked, for which transaction, the adjustment computed,
\* the HTTP status).
Finish(r, code) ==
  [requests EXCEPT ![r] =
     [IdleRequest EXCEPT !.pc = "done", !.op = requests[r].op,
        !.current_user = requests[r].current_user,
        !.transaction_id = requests[r].transaction_id,
        !.balance_change = requests[r].balance_change,
        !.status = code]]

(* -------------------------- create_transaction ------------------------ *)

BeginCreate(r, U, P) ==
  /\ MayBegin(r)
  /\ \E u \in U, payload \in P :
       /\ ValidPayload(payload)
       /\ requests' = [requests EXCEPT ![r] =
            [IdleRequest EXCEPT !.op = "create", !.current_user = CurrentUser(u),
               !.data = payload,
               !.pc = IF Truthy(payload.category_id) THEN "validate" ELSE "insert"]]
  /\ UNCHANGED <<users, categories, transactions, overlap>>

\* Validate category if provided
CreateValidate(r) ==
  /\ requests[r].op = "create" /\ requests[r].pc = "validate"
  /\ requests' =
       IF FindCategory(requests[r].data.category_id, requests[r].current_user.id)
       THEN [requests EXCEPT ![r].pc = "insert"]
       ELSE Finish(r, 400)
  /\ UNCHANGED <<users, categories, transactions, overlap>>

\* Transaction(**transaction_data.model_dump(), user_id=...) with a fresh uuid.
NewTransaction(r) ==
  [id |-> Len(transactions) + 1,
   user_id |-> requests[r].current_user.id,
   amount |-> requests[r].data.amount,
   type |-> requests[r].data.type,
   category_id |-> requests[r].data.category_id,
   transaction_date |-> IsoFormat(requests[r].data.transaction_date),
   is_active |-> TRUE]

CreateInsert(r) ==
  /\ requests[r].op = "create" /\ requests[r].pc = "insert"
  /\ transactions' = Append(transactions, NewTransaction(r))
  /\ requests' = [requests EXCEPT
       ![r].pc = "inc",
       ![r].transaction = NewTransaction(r),
       ![r].transaction_id = NewTransaction(r).id,
       ![r].balance_change =
          BalanceChange(requests[r].data.amount, requests[r].data.type)]
  /\ UNCHANGED <<users, categories, overlap>>

CreateInc(r) ==
  /\ requests[r].op = "create" /\ requests[r].pc = "inc"
  /\ users' = IncTotalBalance(r)
  /\ requests' = Finish(r, 201)
  /\ UNCHANGED <<categories, transactions, overlap>>

(* -------------------------- update_transaction ------------------------ *)

\* Ids a client can name: those of stored transactions, and one that no
\* transaction has.
KnownIds == {NoId} \cup (1..Len(transactions))

\* Another update or delete request on transaction tid is in flight.
Overlaps(tid) ==
  /\ tid # NoId
  /\ \E q \in Requests :
       /\ InFlight(q)
       /\ requests[q].op \in {"update", "delete"}
       /\ requests[q].transaction_id = tid

BeginUpdate(r, U, P) ==
  /\ MayBegin(r)
  /\ \E u \in U, tid \in KnownIds, payload \in P :
       /\ ValidPayload(payload)
       /\ requests' = [requests EXCEPT ![r] =
            [IdleRequest EXCEPT !.op = "update", !.current_user = CurrentUser(u),
               !.data = payload, !.transaction_id = tid, !.pc = "find"]]
       /\ overlap' = (overlap \/ Overlaps(tid))
  /\ UNCHANGED <<users, categories, transactions>>

UpdateFind(r) ==
  /\ requests[r].op = "update" /\ requests[r].pc = "find"
  /\ LET doc == FindTransaction(requests[r].transaction_id, requests[r].current_user.id)
     IN  requests' =
           IF doc = NoDoc THEN Finish(r, 404)
           ELSE IF UpdateData(requests[r].data) = NoDoc
                THEN Finish(r, 200)
                ELSE [requests EXCEPT ![r].pc = "set", ![r].transaction = doc,
                        ![r].old = [amount |-> doc.amount, type |-> doc.type]]
  /\ UNCHANGED <<users, categories, transactions, overlap>>

\* Mutant: the adjustment is computed against the values stored at the time of
\* the write, not against the values the request read.
UpdateSet_AgainstStored(r) ==
  /\ requests[r].op = "update" /\ requests[r].pc = "set"
  /\ LET cur == transactions[requests[r].transaction_id]
         new == SetFields(cur, UpdateData(requests[r].data))
         adj == BalanceEffect(new.amount, new.type) - BalanceEffect(cur.amount, cur.type)
     IN  /\ transactions' =
              UpdateOneTransaction(requests[r].transaction_id, UpdateData(requests[r].data))
         /\ requests' =
              IF adj # 0
              THEN [requests EXCEPT ![r].pc = "inc", ![r].transaction = new,
                                    ![r].balance_change = adj]
              ELSE Finish(r, 200)
  /\ UNCHANGED <<users, categories, overlap>>

UpdateSet(r) ==
  /\ requests[r].op = "update" /\ requests[r].pc = "set"
  /\ LET old == requests[r].old
         new == SetFields(requests[r].transaction, UpdateData(requests[r].data))
         adj == BalanceEffect(new.amount, new.type) - BalanceEffect(old.amount, old.type)
     IN  /\ transactions' =
              UpdateOneTransaction(requests[r].transaction_id, UpdateData(requests[r].data))
         /\ requests' =
              IF adj # 0
              THEN [requests EXCEPT ![r].pc = "inc", ![r].transaction = new,
                                    ![r].balance_change = adj]
              ELSE Finish(r, 200)
  /\ UNCHANGED <<users, categories, overlap>>

UpdateInc(r) ==
  /\ requests[r].op = "update" /\ requests[r].pc = "inc"
  /\ users' = IncTotalBalance(r)
  /\ requests' = Finish(r, 200)
  /\ UNCHANGED <<categories, transactions, overlap>>

(* -------------------------- delete_transaction ------------------------ *)

BeginDelete(r, U) ==
  /\ MayBegin(r)
  /\ \E u \in U, tid \in KnownIds :
       /\ requests' = [requests EXCEPT ![r] =
            [IdleRequest EXCEPT !.op = "delete", !.current_user = CurrentUser(u),
               !.transaction_id = tid, !.pc = "find"]]
       /\ overlap' = (overlap \/ Overlaps(tid))
  /\ UNCHANGED <<users, categories, transactions>>

\* Mutant: the balance is adjusted as soon as the transaction is found, before
\* the ledger write.
DeleteFind_IncFirst(r) ==
  /\ requests[r].op = "delete" /\ requests[r].pc = "find"
  /\ LET doc == FindTransaction(requests[r].transaction_id, requests[r].current_user.id)
     IN  IF doc = NoDoc
         THEN requests' = Finish(r, 404) /\ users' = users
         ELSE /\ requests' = [requests EXCEPT ![r].pc = "set", ![r].transaction = doc]
              /\ users' = [users EXCEPT ![requests[r].current_user.id].total_balance =
                             @ + BalanceReversal(doc.amount, doc.type)]
  /\ UNCHANGED <<categories, transactions, overlap>>

DeleteFind(r) ==
  /\ requests[r].op = "delete" /\ requests[r].pc = "find"
  /\ LET doc == FindTransaction(requests[r].transaction_id, requests[r].current_user.id)
     IN  requests' =
           IF doc = NoDoc THEN Finish(r, 404)
           ELSE [requests EXCEPT ![r].pc = "set", ![r].transaction = doc,
                   ![r].balance_change = BalanceReversal(doc.amount, doc.type)]
  /\ UNCHANGED <<users, categories, transactions, overlap>>

DeleteSet(r) ==
  /\ requests[r].op = "delete" /\ requests[r].pc = "set"
  /\ transactions' =
       UpdateOneTransaction(requests[r].transaction_id, [is_active |-> FALSE])
  /\ requests' =
       IF requests[r].balance_change # 0
       THEN [requests EXCEPT ![r].pc = "inc"]
       ELSE Finish(r, 204)
  /\ UNCHANGED <<users, categories, overlap>>

DeleteInc(r) ==
  /\ requests[r].op = "delete" /\ requests[r].pc = "inc"
  /\ users' = IncTotalBalance(r)
  /\ requests' = Finish(r, 204)
  /\ UNCHANGED <<categories, transactions, overlap>>

(* ------------------------------- reports ------------------------------ *)

\* month and year as sent: each may be omitted.
ReportQueries == [month : {Omitted} \cup Months, year : {Omitted} \cup Years]

\* target_month = month or now.month; target_year = year or now.year
Target(query) ==
  [month |-> IF query.month = Omitted THEN IsoFormat(Now)[2] ELSE query.month,
   year  |-> IF query.year = Omitted THEN IsoFormat(Now)[1] ELSE query.year]

\* Mutant: the year is not advanced after December.
DateRange_SameYear(month, year) ==
  [start_date |-> [instant |-> FirstOfMonth(year, month), offset |-> 0],
   end_date   |-> IF month = 12
                  THEN [instant |-> FirstOfMonth(year, 1), offset |-> 0]
                  ELSE [instant |-> FirstOfMonth(year, month + 1), offset |-> 0]]

\* start_date = datetime(year, month, 1, tzinfo=utc); end_date = the first of
\* the next month, which for December is 1 January of year + 1.
DateRange(month, year) ==
  [start_date |-> [instant |-> FirstOfMonth(year, month), offset |-> 0],
   end_date   |-> IF month = 12
                  THEN [instant |-> FirstOfMonth(year + 1, 1), offset |-> 0]
                  ELSE [instant |-> FirstOfMonth(year, month + 1), offset |-> 0]]

\* Mutant: the upper bound is inclusive ($lte).
InDateRange_Closed(date, range) ==
  /\ StringGte(date, IsoFormat(range.start_date))
  /\ ~StringLess(IsoFormat(range.end_date), date)

\* "transaction_date": {"$gte": start_date.isoformat(), "$lt": end_date.isoformat()}
InDateRange(date, range) ==
  /\ StringGte(date, IsoFormat(range.start_date))
  /\ StringLess(date, IsoFormat(range.end_date))

\* Mutant: deleted transactions are selected too.
FindInPeriod_Deleted(uid, range) ==
  SelectSeq(transactions,
            LAMBDA t : t.user_id = uid /\ InDateRange(t.transaction_date, range))

\* db.transactions.find({"user_id", "is_active": True, "transaction_date": ...})
FindInPeriod(uid, range) ==
  SelectSeq(transactions,
            LAMBDA t : /\ t.user_id = uid
                       /\ t.is_active
                       /\ InDateRange(t.transaction_date, range))

\* Mutant: every type is selected.
FindExpensesInPeriod_AnyType(uid, range) == FindInPeriod(uid, range)

\* db.transactions.find({..., "type": "expense", ...})
FindExpensesInPeriod(uid, range) ==
  SelectSeq(FindInPeriod(uid, range), LAMBDA t : t.type = "expense")

\* sum(t['amount'] for t in transactions[:n] if t['type'] == type)
RECURSIVE SumOfType(_, _, _)
SumOfType(txs, type, n) ==
  IF n = 0 THEN 0
  ELSE SumOfType(txs, type, n - 1) + (IF txs[n].type = type THEN txs[n].amount ELSE 0)

\* Mutant: transfers are left out of the count.
FinancialSummary_NoTransfers(txs, target) ==
  [total_income |-> SumOfType(txs, "income", Len(txs)),
   total_expense |-> SumOfType(txs, "expense", Len(txs)),
   net_balance |-> SumOfType(txs, "income", Len(txs)) - SumOfType(txs, "expense", Len(txs)),
   transaction_count |-> Len(SelectSeq(txs, LAMBDA t : t.type # "transfer")),
   month |-> target.month, year |-> target.year]

\* FinancialSummary(total_income, total_expense, net_balance, transaction_count, ...)
FinancialSummary(txs, target) ==
  [total_income |-> SumOfType(txs, "income", Len(txs)),
   total_expense |-> SumOfType(txs, "expense", Len(txs)),
   net_balance |-> SumOfType(txs, "income", Len(txs)) - SumOfType(txs, "expense", Len(txs)),
   transaction_count |-> Len(txs),
   month |-> target.month, year |-> target.year]

\* db.categories.find({"user_id": ...}); category_map = {c['id']: c['name']}
CategoryMap(uid) ==
  [c \in {c \in DOMAIN categories : categories[c].user_id = uid} |-> categories[c].name]

\* category_totals after the first n transactions: the dict as the sequence of
\* its items in insertion order.
RECURSIVE CategoryTotals(_, _)
CategoryTotals(txs, n) ==
  IF n = 0 THEN <<>>
  ELSE LET totals == CategoryTotals(txs, n - 1)
           cat_id == txs[n].category_id
       IN  IF \A i \in 1..Len(totals) : totals[i].cat_id # cat_id
           THEN Append(totals, [cat_id |-> cat_id, amount |-> txs[n].amount, count |-> 1])
           ELSE [i \in 1..Len(totals) |->
                   IF totals[i].cat_id = cat_id
                   THEN [totals[i] EXCEPT !.amount = @ + txs[n].amount, !.count = @ + 1]
                   ELSE totals[i]]

\* sum(ct['amount'] for ct in category_totals.values())
RECURSIVE SumOfTotals(_, _)
SumOfTotals(totals, n) ==
  IF n = 0 THEN 0 ELSE SumOfTotals(totals, n - 1) + totals[n].amount

\* category_map.get(cat_id, "Sem categoria" if cat_id else "Sem categoria")
NameOf(category_map, cat_id) ==
  IF cat_id \in DOMAIN category_map THEN category_map[cat_id] ELSE "Sem categoria"

\* (data['amount'] / total_expense * 100) if total_expense > 0 else 0, kept as
\* the exact fraction num / den.
Percentage(amount, total_expense) ==
  IF total_expense > 0
  THEN [num |-> amount * 100, den |-> total_expense]
  ELSE [num |-> 0, den |-> 1]

\* expenses.append(CategoryExpense(...)) for every item of category_totals
CategoryExpenses(totals, category_map) ==
  [i \in 1..Len(totals) |->
     [category_id |-> totals[i].cat_id,
      category_name |-> NameOf(category_map, totals[i].cat_id),
      total_amount |-> totals[i].amount,
      transaction_count |-> totals[i].count,
      percentage |-> Percentage(totals[i].amount, SumOfTotals(totals, Len(totals)))]]

\* Mutant: an element is placed before the elements of equal total_amount (an
\* ascending sort that is reversed afterwards).
InsertDescending_BeforeEqual(sorted, e) ==
  LET k == Cardinality({i \in 1..Len(sorted) : sorted[i].total_amount > e.total_amount})
  IN  SubSeq(sorted, 1, k) \o <<e>> \o SubSeq(sorted, k + 1, Len(sorted))

\* One step of the stable descending sort: e goes behind every element whose
\* total_amount is greater or equal.
InsertDescending(sorted, e) ==
  LET k == Cardinality({i \in 1..Len(sorted) : sorted[i].total_amount >= e.total_amount})
  IN  SubSeq(sorted, 1, k) \o <<e>> \o SubSeq(sorted, k + 1, Len(sorted))

\* expenses.sort(key=lambda x: x.total_amount, reverse=True) on the first n items
RECURSIVE SortDescending(_, _)
SortDescending(expenses, n) ==
  IF n = 0 THEN <<>>
  ELSE InsertDescending(SortDescending(expenses, n - 1), expenses[n])

\* ExpenseByCategory(expenses=expenses, total_expense=total_expense)
ExpenseByCategory(txs, category_map) ==
  LET totals == CategoryTotals(txs, Len(txs))
      expenses == CategoryExpenses(totals, category_map)
  IN  [expenses |-> SortDescending(expenses, Len(expenses)),
       total_expense |-> SumOfTotals(totals, Len(totals))]

\* The report is returned: what stays of the request is the query and the body.
Respond(r, body) ==
  [requests EXCEPT ![r] =
     [IdleRequest EXCEPT !.pc = "done", !.op = requests[r].op,
        !.current_user = requests[r].current_user,
        !.query = requests[r].query, !.response = body, !.status = 200]]

BeginReport(r, U, Q, report) ==
  /\ MayBegin(r)
  /\ \E u \in U, query \in Q :
       requests' = [requests EXCEPT ![r] =
         [IdleRequest EXCEPT !.op = report, !.current_user = CurrentUser(u),
            !.query = query, !.pc = "find"]]
  /\ UNCHANGED <<users, categories, transactions, overlap>>

\* get_financial_summary
BeginSummary(r, U, Q) == BeginReport(r, U, Q, "summary")

\* A summary that stores the month's net balance as the user's total_balance.
SummaryFind_StoresBalance(r) ==
  /\ requests[r].op = "summary" /\ requests[r].pc = "find"
  /\ LET target == Target(requests[r].query)
         uid == requests[r].current_user.id
         found == FindInPeriod(uid, DateRange(target.month, target.year))
         summary == FinancialSummary(found, target)
     IN  /\ requests' = Respond(r, summary)
         /\ users' = [users EXCEPT ![uid].total_balance = summary.net_balance]
  /\ UNCHANGED <<categories, transactions, overlap>>

SummaryFind(r) ==
  /\ requests[r].op = "summary" /\ requests[r].pc = "find"
  /\ LET target == Target(requests[r].query)
         found == FindInPeriod(requests[r].current_user.id,
                               DateRange(target.month, target.year))
     IN  requests' = Respond(r, FinancialSummary(found, target))
  /\ UNCHANGED <<users, categories, transactions, overlap>>

\* get_expenses_by_category
BeginByCategory(r, U, Q) == BeginReport(r, U, Q, "by_category")

ByCategoryFind(r) ==
  /\ requests[r].op = "by_category" /\ requests[r].pc = "find"
  /\ LET target == Target(requests[r].query)
     IN  requests' = [requests EXCEPT
           ![r].pc = "categories",
           ![r].found = FindExpensesInPeriod(requests[r].current_user.id,
                                            DateRange(target.month, target.year))]
  /\ UNCHANGED <<users, categories, transactions, overlap>>

ByCategoryCategories(r) ==
  /\ requests[r].op = "by_category" /\ requests[r].pc = "categories"
  /\ requests' =
       Respond(r, ExpenseByCategory(requests[r].found,
                                    CategoryMap(requests[r].current_user.id)))
  /\ UNCHANGED <<users, categories, transactions, overlap>>

(* ------------------------ request validation ------------------------- *)

\* A body that fails validation is answered 422; the handler is not called.
RejectCreate(r, U, P) ==
  /\ MayBegin(r)
  /\ \E u \in U, payload \in P :
       /\ ~ValidPayload(payload)
       /\ requests' = [requests EXCEPT ![r] =
            [IdleRequest EXCEPT !.pc = "done", !.op = "create",
               !.current_user = CurrentUser(u), !.data = payload, !.status = 422]]
  /\ UNCHANGED <<users, categories, transactions, overlap>>

RejectUpdate(r, U, P) ==
  /\ MayBegin(r)
  /\ \E u \in U, tid \in KnownIds, payload \in P :
       /\ ~ValidPayload(payload)
       /\ requests' = [requests EXCEPT ![r] =
            [IdleRequest EXCEPT !.pc = "done", !.op = "update",
               !.current_user = CurrentUser(u), !.data = payload,
               !.transaction_id = tid, !.status = 422]]
  /\ UNCHANGED <<users, categories, transactions, overlap>>

(* ----------------------------- delete_category ------------------------ *)

\* update_one({"id", "user_id", "is_active": True}, {"$set": {"is_active": False}});
\* modified_count = 0 is answered 404 and changes nothing.
DeleteCategory(cid, uid) ==
  /\ categories' =
       IF FindCategory(cid, uid)
       THEN [categories EXCEPT ![cid].is_active = FALSE]
       ELSE categories
  /\ UNCHANGED <<users, transactions, requests, overlap>>

(* ------------------------------- a crash ------------------------------ *)

\* The request stops for good where it stands (process killed, client abort):
\* none of its remaining store operations is issued.
Crash(r) ==
  /\ InFlight(r)
  /\ requests' = [requests EXCEPT ![r] =
       [IdleRequest EXCEPT !.pc = "crashed", !.op = requests[r].op,
          !.current_user = requests[r].current_user,
          !.transaction_id = requests[r].transaction_id,
          !.balance_change = requests[r].balance_change,
          !.crashed_at = requests[r].pc]]
  /\ UNCHANGED <<users, categories, transactions, overlap>>

(* ------------------------------ accounts ------------------------------ *)

\* The email address a user registered with.
Email(u) == u \o "@mail"

\* Email addresses a client may send: the registered ones and a new one.
Emails == {Email(u) : u \in UserIds} \cup {"new@mail"}

\* str(uuid.uuid4()): an id no other document has, one for each request.
Uuid(r) == "id" \o ToString(r)

\* last_login: Optional[datetime] = None
NeverLoggedIn == <<>>

\* User(email=..., full_name=...).model_dump(): total_balance = 0.0
NewUser(email) ==
  [email |-> email, total_balance |-> 0, last_login |-> NeverLoggedIn]

\* The store with the account fields of the user documents: two registered
\* users who have not logged in yet.
InitAccount ==
  /\ transactions \in InitialTransactions
  /\ users = [u \in UserIds |->
       [NewUser(Email(u)) EXCEPT !.total_balance =
          IF u = "u1" /\ transactions # <<>>
          THEN BalanceChange(transactions[1].amount, transactions[1].type)
          ELSE 0]]
  /\ categories = [c \in CategoryIds |->
                     [user_id |-> IF c = "c1" THEN "u1" ELSE "u2",
                      name |-> CategoryName(c), is_active |-> TRUE]]
  /\ requests = [r \in Requests |-> IdleRequest]
  /\ overlap = FALSE

\* The response is sent with a body.
FinishWith(r, code, body) == [Finish(r, code) EXCEPT ![r].response = body]

\* register
BeginRegister(r, E) ==
  /\ MayBegin(r)
  /\ \E email \in E :
       requests' = [requests EXCEPT ![r] =
         [IdleRequest EXCEPT !.op = "register", !.data = [email |-> email],
            !.pc = "find"]]
  /\ UNCHANGED <<users, categories, transactions, overlap>>

\* db.users.find_one({"email": user_data.email}); a match is answered 400.
RegisterFind(r) ==
  /\ requests[r].op = "register" /\ requests[r].pc = "find"
  /\ requests' =
       IF \E u \in DOMAIN users : users[u].email = requests[r].data.email
       THEN Finish(r, 400)
       ELSE [requests EXCEPT ![r].pc = "insert"]
  /\ UNCHANGED <<users, categories, transactions, overlap>>

\* db.users.insert_one(user_dict); the response carries user.total_balance.
RegisterInsert(r) ==
  /\ requests[r].op = "register" /\ requests[r].pc = "insert"
  /\ LET user == NewUser(requests[r].data.email)
     IN  /\ users' = (Uuid(r) :> user) @@ users
         /\ requests' = FinishWith(r, 201, [id |-> Uuid(r),
                                            total_balance |-> user.total_balance])
  /\ UNCHANGED <<categories, transactions, overlap>>

\* UserLogin: an email and a password that verifies or does not.
Credentials == [email : Emails, password_ok : BOOLEAN]

\* login
BeginLogin(r, C) ==
  /\ MayBegin(r)
  /\ \E credentials \in C :
       requests' = [requests EXCEPT ![r] =
         [IdleRequest EXCEPT !.op = "login", !.data = credentials, !.pc = "find"]]
  /\ UNCHANGED <<users, categories, transactions, overlap>>

\* db.users.find_one({"email": credentials.email}); no user or a wrong
\* password is answered 401 (no handler deactivates a user: is_active holds).
LoginFind(r) ==
  /\ requests[r].op = "login" /\ requests[r].pc = "find"
  /\ LET matches == {u \in DOMAIN users : users[u].email = requests[r].data.email}
     IN  IF matches = {} \/ ~requests[r].data.password_ok
         THEN requests' = Finish(r, 401)
         ELSE \E u \in matches :
                requests' = [requests EXCEPT
                  ![r].pc = "set",
                  ![r].found = [id |-> u, total_balance |-> users[u].total_balance]]
  /\ UNCHANGED <<users, categories, transactions, overlap>>

\* Mutant: the user document read by the lookup is written back whole.
LoginSet_WholeDocument(r) ==
  /\ requests[r].op = "login" /\ requests[r].pc = "set"
  /\ LET user == requests[r].found
     IN  /\ users' = [users EXCEPT
               ![user.id].last_login = IsoFormat(Now),
               ![user.id].total_balance = user.total_balance]
         /\ requests' = FinishWith(r, 200, user)
  /\ UNCHANGED <<categories, transactions, overlap>>

\* db.users.update_one({"id": user['id']}, {"$set": {"last_login": now}}); the
\* response carries the total_balance read by the lookup.
LoginSet(r) ==
  /\ requests[r].op = "login" /\ requests[r].pc = "set"
  /\ LET user == requests[r].found
     IN  /\ users' = [users EXCEPT ![user.id].last_login = IsoFormat(Now)]
         /\ requests' = FinishWith(r, 200, user)
  /\ UNCHANGED <<categories, transactions, overlap>>

\* A handler that answers from one read: the request begins and ends here.
Answer(r, op, u, query, body) ==
  [requests EXCEPT ![r] =
     [IdleRequest EXCEPT !.pc = "done", !.op = op, !.current_user = CurrentUser(u),
        !.query = query, !.response = body, !.status = 200]]

\* get_me: the user document read by get_current_user.
GetMe(r, U) ==
  /\ MayBegin(r)
  /\ \E u \in U : requests' = Answer(r, "get_me", u, NoDoc, CurrentUser(u))
  /\ UNCHANGED <<users, categories, transactions, overlap>>

(* ----------------------------- categories ----------------------------- *)

\* The is_active parameter of get_categories: not sent, true or false.
CategoryQueries == {<<>>} \cup {[is_active |-> b] : b \in BOOLEAN}

\* get_categories: query["is_active"] = is_active if it is sent, else True.
\* The page is the first one and holds every match (page_size = 50).
GetCategories(r, U, Q) ==
  /\ MayBegin(r)
  /\ \E u \in U, query \in Q :
       LET wanted == IF "is_active" \in DOMAIN query THEN query.is_active ELSE TRUE
       IN  requests' =
             Answer(r, "get_categories", u, query,
                    {c \in DOMAIN categories :
                       categories[c].user_id = u /\ categories[c].is_active = wanted})
  /\ UNCHANGED <<users, categories, transactions, overlap>>

CategoryNames == {CategoryName(c) : c \in CategoryIds}

\* create_category: db.categories.insert_one(cat_dict)
CreateCategory(r, U, N) ==
  /\ MayBegin(r)
  /\ \E u \in U, name \in N :
       LET category == [user_id |-> u, name |-> name, is_active |-> TRUE]
       IN  /\ categories' = (Uuid(r) :> category) @@ categories
           /\ requests' = [Answer(r, "create_category", u, NoDoc, category)
                             EXCEPT ![r].status = 201]
  /\ UNCHANGED <<users, transactions, overlap>>

\* CategoryUpdate payloads: a field that is None is left out of update_data.
CategoryUpdate == {<<>>} \cup {[name |-> n] : n \in CategoryNames}

\* update_category
BeginUpdateCategory(r, U, P) ==
  /\ MayBegin(r)
  /\ \E u \in U, cid \in CategoryIds, payload \in P :
       requests' = [requests EXCEPT ![r] =
         [IdleRequest EXCEPT !.op = "update_category",
            !.current_user = CurrentUser(u),
            !.query = [category_id |-> cid], !.data = payload, !.pc = "find"]]
  /\ UNCHANGED <<users, categories, transactions, overlap>>

\* db.categories.find_one({"id", "user_id", "is_active": True}); None is
\* answered 404, an empty update_data 200 with the category as found.
UpdateCategoryFind(r) ==
  /\ requests[r].op = "update_category" /\ requests[r].pc = "find"
  /\ LET cid == requests[r].query.category_id
     IN  requests' =
           IF ~FindCategory(cid, requests[r].current_user.id)
           THEN Finish(r, 404)
           ELSE IF requests[r].data = <<>>
           THEN FinishWith(r, 200, categories[cid])
           ELSE [requests EXCEPT ![r].pc = "set", ![r].found = categories[cid]]
  /\ UNCHANGED <<users, categories, transactions, overlap>>

\* db.categories.update_one({"id": category_id}, {"$set": update_data});
\* category.update(update_data) on the document found.
UpdateCategorySet(r) ==
  /\ requests[r].op = "update_category" /\ requests[r].pc = "set"
  /\ categories' = [categories EXCEPT
                      ![requests[r].query.category_id].name = requests[r].data.name]
  /\ requests' = FinishWith(r, 200, [requests[r].found EXCEPT
                                       !.name = requests[r].data.name])
  /\ UNCHANGED <<users, transactions, overlap>>

(* --------------------------- get_transactions ------------------------- *)

\* The query parameters of get_transactions: a parameter that is not sent is
\* absent from the record.
TransactionQueries ==
  { c @@ t @@ s @@ e @@ p :
      c \in {<<>>} \cup {[category_id |-> x] : x \in {""} \cup CategoryIds},
      t \in {<<>>} \cup {[transaction_type |-> x] : x \in TransactionType},
      s \in {<<>>} \cup {[start_date |-> x] : x \in DateInputs},
      e \in {<<>>} \cup {[end_date |-> x] : x \in DateInputs},
      p \in [page : 1..2, page_size : 1..2] }

\* query = {"user_id", "is_active": True} and one condition for each
\* parameter that is sent and truthy.
MatchesQuery(t, uid, query) ==
  /\ t.user_id = uid
  /\ t.is_active
  /\ ("category_id" \in DOMAIN query /\ Truthy(query.category_id))
       => t.category_id = query.category_id
  /\ "transaction_type" \in DOMAIN query => t.type = query.transaction_type
  /\ "start_date" \in DOMAIN query
       => StringGte(t.transaction_date, IsoFormat(query.start_date))
  /\ "end_date" \in DOMAIN query
       => ~StringLess(IsoFormat(query.end_date), t.transaction_date)

\* One more document in a list sorted by transaction_date, latest first
\* (documents of equal date stay in the order of the store).
InsertLatestFirst(sorted, t) ==
  LET k == Cardinality({i \in 1..Len(sorted) :
                          ~StringLess(sorted[i].transaction_date, t.transaction_date)})
  IN  SubSeq(sorted, 1, k) \o <<t>> \o SubSeq(sorted, k + 1, Len(sorted))

\* sort("transaction_date", -1) on the first n documents
RECURSIVE SortLatestFirst(_, _)
SortLatestFirst(txs, n) ==
  IF n = 0 THEN <<>>
  ELSE InsertLatestFirst(SortLatestFirst(txs, n - 1), txs[n])

\* find(query).sort("transaction_date", -1).skip(skip).limit(page_size)
FindPage(uid, query) ==
  LET matches == SelectSeq(transactions, LAMBDA t : MatchesQuery(t, uid, query))
      sorted == SortLatestFirst(matches, Len(matches))
      skip == (query.page - 1) * query.page_size
      last == IF skip + query.page_size < Len(sorted)
              THEN skip + query.page_size ELSE Len(sorted)
  IN  SubSeq(sorted, skip + 1, last)

\* t['category_name'] = categories.get(t.get('category_id')) for each document
WithCategoryNames(txs, names) ==
  [k \in 1..Len(txs) |->
     [id |-> txs[k].id, category_id |-> txs[k].category_id,
      category_name |-> IF txs[k].category_id \in DOMAIN names
                        THEN names[txs[k].category_id] ELSE None]]

BeginList(r, U, Q) ==
  /\ MayBegin(r)
  /\ \E u \in U, query \in Q :
       requests' = [requests EXCEPT ![r] =
         [IdleRequest EXCEPT !.op = "get_transactions",
            !.current_user = CurrentUser(u), !.query = query, !.pc = "find"]]
  /\ UNCHANGED <<users, categories, transactions, overlap>>

\* The page is read; without a truthy category_id in it the categories are
\* not read and every category_name is None.
ListFind(r) ==
  /\ requests[r].op = "get_transactions" /\ requests[r].pc = "find"
  /\ LET page == FindPage(requests[r].current_user.id, requests[r].query)
     IN  requests' =
           IF \E k \in 1..Len(page) : Truthy(page[k].category_id)
           THEN [requests EXCEPT ![r].pc = "categories", ![r].found = page]
           ELSE [FinishWith(r, 200, WithCategoryNames(page, <<>>))
                   EXCEPT ![r].query = requests[r].query]
  /\ UNCHANGED <<users, categories, transactions, overlap>>

\* db.categories.find({"id": {"$in": category_ids}}): the names of the
\* categories of the page, whoever owns them, deleted or not.
ListCategoryNames(r) ==
  /\ requests[r].op = "get_transactions" /\ requests[r].pc = "categories"
  /\ LET page == requests[r].found
         category_ids == {page[k].category_id : k \in 1..Len(page)}
         names == [c \in category_ids \cap DOMAIN categories |-> categories[c].name]
     IN  requests' = [FinishWith(r, 200, WithCategoryNames(page, names))
                        EXCEPT ![r].query = requests[r].query]
  /\ UNCHANGED <<users, categories, transactions, overlap>>

(* --------------------------- specifications --------------------------- *)

\* Payloads that name no category and no date (transaction_date defaults to now).
CreateNoCategory ==
  {p \in TransactionCreate : p.category_id = None /\ p.transaction_date = Now}

UpdateNoCategory ==
  {p \in TransactionUpdate :
     "category_id" \notin DOMAIN p /\ "transaction_date" \notin DOMAIN p}

\* Creation payloads with every kind of category_id, dated now.
CreateAnyCategory == {p \in TransactionCreate : p.transaction_date = Now}

\* The store operations of the handlers (a payload without category_id skips
\* the category lookup).
Step(r) ==
  \/ CreateInsert(r) \/ CreateInc(r)
  \/ UpdateFind(r) \/ UpdateSet(r) \/ UpdateInc(r)
  \/ DeleteFind(r) \/ DeleteSet(r) \/ DeleteInc(r)

NoneInFlight == \A r \in Requests : ~InFlight(r)

\* One user's requests served in parallel, their store operations interleaved.
Next ==
  \E r \in Requests :
    \/ BeginCreate(r, {"u1"}, CreateNoCategory)
    \/ BeginUpdate(r, {"u1"}, UpdateNoCategory)
    \/ BeginDelete(r, {"u1"})
    \/ Step(r)

Spec == Init /\ [][Next]_vars

\* One user's requests served in parallel, no two of them updating or deleting
\* the same transaction at the same time.
NextDisjoint ==
  \E r \in Requests :
    \/ BeginCreate(r, {"u1"}, CreateNoCategory)
    \/ BeginUpdate(r, {"u1"}, UpdateNoCategory) /\ ~overlap'
    \/ BeginDelete(r, {"u1"}) /\ ~overlap'
    \/ Step(r)

SpecDisjoint == Init /\ [][NextDisjoint]_vars

\* One user's update requests served in parallel.
NextUpdates ==
  \E r \in Requests :
    \/ BeginUpdate(r, {"u1"}, UpdateNoCategory)
    \/ UpdateFind(r) \/ UpdateSet(r) \/ UpdateInc(r)

SpecUpdates == Init /\ [][NextUpdates]_vars

\* Requests of both users served in parallel, their store operations interleaved.
NextTwoUsers ==
  \E r \in Requests :
    \/ BeginCreate(r, UserIds, CreateNoCategory)
    \/ BeginUpdate(r, UserIds, UpdateNoCategory)
    \/ BeginDelete(r, UserIds)
    \/ Step(r)

SpecTwoUsers == Init /\ [][NextTwoUsers]_vars

\* Requests of both users executed one after another.
NextSeq ==
  \E r \in Requests :
    \/ NoneInFlight /\ BeginCreate(r, UserIds, CreateNoCategory)
    \/ NoneInFlight /\ BeginUpdate(r, UserIds, UpdateNoCategory)
    \/ NoneInFlight /\ BeginDelete(r, UserIds)
    \/ Step(r)

SpecSeq == Init /\ [][NextSeq]_vars

\* One user's requests executed one after another, each of which may crash.
NextCrash ==
  \E r \in Requests :
    \/ NoneInFlight /\ BeginCreate(r, {"u1"}, CreateNoCategory)
    \/ NoneInFlight /\ BeginUpdate(r, {"u1"}, UpdateNoCategory)
    \/ NoneInFlight /\ BeginDelete(r, {"u1"})
    \/ Step(r)
    \/ Crash(r)

SpecCrash == Init /\ [][NextCrash]_vars

\* One user's creations with every kind of category_id, one after another,
\* between deletions of categories.
NextCategory ==
  \/ \E r \in Requests :
       \/ NoneInFlight /\ BeginCreate(r, {"u1"}, CreateAnyCategory)
       \/ CreateValidate(r)
       \/ CreateInsert(r)
       \/ CreateInc(r)
  \/ \E cid \in CategoryIds, uid \in UserIds :
       NoneInFlight /\ DeleteCategory(cid, uid)

SpecCategory == Init /\ [][NextCategory]_vars

\* One user's requests with valid and invalid amounts, one after another.
NextValidation ==
  \E r \in Requests :
    \/ NoneInFlight /\ BeginCreate(r, {"u1"}, CreateAnyAmount)
    \/ NoneInFlight /\ RejectCreate(r, {"u1"}, CreateAnyAmount)
    \/ NoneInFlight /\ BeginUpdate(r, {"u1"}, UpdateAnyAmount)
    \/ NoneInFlight /\ RejectUpdate(r, {"u1"}, UpdateAnyAmount)
    \/ NoneInFlight /\ BeginDelete(r, {"u1"})
    \/ Step(r)

SpecValidation == Init /\ [][NextValidation]_vars

\* The report asked for: the current month (month and year are not sent).
QueryCurrentMonth == {q \in ReportQueries : q.month = Omitted /\ q.year = Omitted}

\* The summaries asked for: the current month, or January 2025.
QueriesDecemberJanuary ==
  QueryCurrentMonth \cup {q \in ReportQueries : q.month = 1 /\ q.year = 2025}

\* Reports of user u1 over a given store, one after another.
NextReports ==
  \E r \in Requests :
    \/ NoneInFlight /\ BeginSummary(r, {"u1"}, QueriesDecemberJanuary)
    \/ NoneInFlight /\ BeginByCategory(r, {"u1"}, QueryCurrentMonth)
    \/ SummaryFind(r)
    \/ ByCategoryFind(r)
    \/ ByCategoryCategories(r)

SpecReports == InitReport /\ [][NextReports]_vars

\* Payloads that carry any transaction_date (and no category).
CreateAnyDate == {p \in TransactionCreate : p.category_id = None}

UpdateDate == {p \in TransactionUpdate : DOMAIN p = {"transaction_date"}}

\* One user's creations and re-datings of transactions and reports for any
\* month, one after another.
NextWindow ==
  \E r \in Requests :
    \/ NoneInFlight /\ BeginCreate(r, {"u1"}, CreateAnyDate)
    \/ NoneInFlight /\ BeginUpdate(r, {"u1"}, UpdateDate)
    \/ NoneInFlight /\ BeginSummary(r, {"u1"}, ReportQueries)
    \/ NoneInFlight /\ BeginByCategory(r, {"u1"}, ReportQueries)
    \/ CreateInsert(r) \/ CreateInc(r)
    \/ UpdateFind(r) \/ UpdateSet(r)
    \/ SummaryFind(r)
    \/ ByCategoryFind(r) \/ ByCategoryCategories(r)

SpecWindow == Init /\ [][NextWindow]_vars

\* One user's creations with any category_id and category breakdowns, one
\* after another, between deletions of categories.
NextCategoryReport ==
  \/ \E r \in Requests :
       \/ NoneInFlight /\ BeginCreate(r, {"u1"}, CreateAnyCategory)
       \/ NoneInFlight /\ BeginByCategory(r, {"u1"}, QueryCurrentMonth)
       \/ CreateValidate(r)
       \/ CreateInsert(r)
       \/ CreateInc(r)
       \/ ByCategoryFind(r)
       \/ ByCategoryCategories(r)
  \/ \E cid \in CategoryIds, uid \in UserIds :
       NoneInFlight /\ DeleteCategory(cid, uid)

SpecCategoryReport == Init /\ [][NextCategoryReport]_vars

\* One user's mutations and reports served in parallel, their store
\* operations interleaved, and categories deleted in between.
NextReadOnly ==
  \/ \E r \in Requests :
       \/ BeginCreate(r, {"u1"}, CreateNoCategory)
       \/ BeginUpdate(r, {"u1"}, UpdateNoCategory)
       \/ BeginDelete(r, {"u1"})
       \/ BeginSummary(r, {"u1"}, QueryCurrentMonth)
       \/ BeginByCategory(r, {"u1"}, QueryCurrentMonth)
       \/ Step(r)
       \/ SummaryFind(r)
       \/ ByCategoryFind(r)
       \/ ByCategoryCategories(r)
  \/ \E cid \in CategoryIds : DeleteCategory(cid, "u1")

SpecReadOnly == Init /\ [][NextReadOnly]_vars

\* Creation payloads without a category or with the category of u1, dated now.
CreateOwnCategory ==
  {p \in CreateAnyCategory : p.category_id \in {None, "c1"}}

\* The listing asked for: no filter, the first page.
QueryFirstPage == {q \in TransactionQueries : DOMAIN q = {"page", "page_size"} /\ q.page = 1}

\* Every handler of the API served in parallel for user u1, the store
\* operations interleaved; registrations and logins come from anyone.
NextAccount ==
  \/ \E r \in Requests :
       \/ BeginRegister(r, Emails)
       \/ RegisterFind(r)
       \/ RegisterInsert(r)
       \/ BeginLogin(r, Credentials)
       \/ LoginFind(r)
       \/ LoginSet(r)
       \/ GetMe(r, {"u1"})
       \/ GetCategories(r, {"u1"}, CategoryQueries)
       \/ CreateCategory(r, {"u1"}, CategoryNames)
       \/ BeginUpdateCategory(r, {"u1"}, CategoryUpdate)
       \/ UpdateCategoryFind(r)
       \/ UpdateCategorySet(r)
       \/ BeginList(r, {"u1"}, QueryFirstPage)
       \/ ListFind(r)
       \/ ListCategoryNames(r)
       \/ BeginSummary(r, {"u1"}, QueryCurrentMonth)
       \/ SummaryFind(r)
       \/ BeginByCategory(r, {"u1"}, QueryCurrentMonth)
       \/ ByCategoryFind(r)
       \/ ByCategoryCategories(r)
       \/ BeginCreate(r, {"u1"}, CreateOwnCategory)
       \/ CreateValidate(r)
       \/ BeginUpdate(r, {"u1"}, UpdateNoCategory)
       \/ BeginDelete(r, {"u1"})
       \/ Step(r)
  \/ \E cid \in CategoryIds : DeleteCategory(cid, "u1")

SpecAccount == InitAccount /\ [][NextAccount]_vars

\* Update payloads with any combination of fields; a date that is supplied is
\* the first instant of January 2025, written in the largest offset.
UpdateAnyField ==
  {p \in TransactionUpdate :
     "transaction_date" \in DOMAIN p
       => p.transaction_date = [instant |-> FirstOfMonth(2025, 1), offset |-> MaxOffset]}

\* One user's update requests with any fields, served in parallel.
NextUpdateFields ==
  \E r \in Requests :
    \/ BeginUpdate(r, {"u1"}, UpdateAnyField)
    \/ UpdateFind(r) \/ UpdateSet(r) \/ UpdateInc(r)

SpecUpdateFields == Init /\ [][NextUpdateFields]_vars

\* Update and delete requests of u1 on any transaction id, served in parallel.
NextLookup ==
  \E r \in Requests :
    \/ BeginUpdate(r, {"u1"}, UpdateNoCategory)
    \/ BeginDelete(r, {"u1"})
    \/ UpdateFind(r) \/ UpdateSet(r) \/ UpdateInc(r)
    \/ DeleteFind(r) \/ DeleteSet(r) \/ DeleteInc(r)

SpecLookup == InitLookup /\ [][NextLookup]_vars

\* Update payloads that supply a category_id and nothing else.
UpdateCategoryId == {p \in TransactionUpdate : DOMAIN p = {"category_id"}}

\* One user's creations and re-categorisations of transactions, one after
\* another.
NextCategoryWrites ==
  \E r \in Requests :
    \/ NoneInFlight /\ BeginCreate(r, {"u1"}, CreateAnyCategory)
    \/ NoneInFlight /\ BeginUpdate(r, {"u1"}, UpdateCategoryId)
    \/ CreateValidate(r)
    \/ CreateInsert(r)
    \/ CreateInc(r)
    \/ UpdateFind(r)
    \/ UpdateSet(r)

SpecCategoryWrites == Init /\ [][NextCategoryWrites]_vars

\* Register requests for any email, served in parallel.
NextRegister ==
  \E r \in Requests :
    \/ BeginRegister(r, Emails)
    \/ RegisterFind(r)
    \/ RegisterInsert(r)

SpecRegister == InitAccount /\ [][NextRegister]_vars

(* ------------------------- what the claims say ----------------------- *)

\* The signed effect of a transaction on the balance.
effect(amount, type) ==
  CASE type = "income" -> amount
    [] type = "expense" -> 0 - amount
    [] type = "transfer" -> 0

RECURSIVE EffectsUpTo(_, _)
EffectsUpTo(uid, n) ==
  IF n = 0 THEN 0
  ELSE EffectsUpTo(uid, n - 1) +
       (IF transactions[n].user_id = uid /\ transactions[n].is_active
        THEN effect(transactions[n].amount, transactions[n].type) ELSE 0)

\* Sum of the effects of the user's active transactions.
ActiveEffects(uid) == EffectsUpTo(uid, Len(transactions))

RECURSIVE AdjustmentsUpTo(_, _)
AdjustmentsUpTo(S, n) ==
  IF n = 0 THEN 0
  ELSE AdjustmentsUpTo(S, n - 1) + (IF n \in S THEN requests[n].balance_change ELSE 0)

\* Sum of the adjustments computed by the requests in S.
Adjustments(S) == AdjustmentsUpTo(S, MaxRequests)

Succeeded(r) == requests[r].pc = "done" /\ requests[r].status \in {200, 201, 204}

\* Request r is the last one that arrived.
Latest(r) == requests[r].pc # "idle" /\ (r = MaxRequests \/ requests[r + 1].pc = "idle")

UserOf(r) == requests[r].current_user.id

\* C1: after any sequence of create/update/delete requests run one after
\* another, each user's total_balance is the sum of the effects of that
\* user's active transactions.
C1_SequentialBalance ==
  NoneInFlight => \A u \in UserIds : users[u].total_balance = ActiveEffects(u)

C1_Witness ==
  /\ NoneInFlight
  /\ \E r, q \in Requests :
       /\ requests[r].op = "update" /\ Succeeded(r) /\ requests[r].balance_change # 0
       /\ requests[q].op = "delete" /\ Succeeded(q) /\ requests[q].balance_change # 0

\* C2 as stated: under any interleaving of one user's concurrent requests,
\* requests on the same transaction included, whenever no request is in flight
\* total_balance is the sum of the effects of the active transactions.
C2_QuiescentBalance ==
  NoneInFlight => users["u1"].total_balance = ActiveEffects("u1")

\* C2 amended: the same, provided no two update/delete requests on the same
\* transaction overlapped.
C2_QuiescentBalanceNoOverlap ==
  (NoneInFlight /\ ~overlap) => users["u1"].total_balance = ActiveEffects("u1")

\* C3: when the concurrent requests of one user each target a different
\* transaction (SpecDisjoint), then once all have completed total_balance is
\* its initial value (the balance the first request to arrive read) plus the
\* sum of the requests' own adjustments.
C3_AdjustmentsCompose ==
  (NoneInFlight /\ requests[1].pc # "idle") =>
    users["u1"].total_balance =
      requests[1].current_user.total_balance + Adjustments(Requests)

\* An update of the stored transaction and a creation that both read the
\* initial balance (the second arrived before the first had adjusted it), and
\* both adjusted it.
C3_Witness ==
  /\ NoneInFlight
  /\ requests[1].op = "update" /\ requests[2].op = "create"
  /\ \A r \in 1..2 :
       /\ Succeeded(r)
       /\ requests[r].balance_change # 0
       /\ requests[r].current_user.total_balance = requests[1].current_user.total_balance

\* The delete requests that reversed the effect of transaction tid.
Reversals(tid) ==
  {r \in Requests : /\ requests[r].op = "delete"
                    /\ requests[r].transaction_id = tid
                    /\ Succeeded(r)
                    /\ requests[r].balance_change # 0}

\* C4: a transaction that goes from active to inactive has its effect
\* reversed on total_balance exactly once, also when requests on the same
\* transaction run concurrently.
C4_ReversedExactlyOnce ==
  \A tid \in 1..Len(transactions) :
    /\ Cardinality(Reversals(tid)) <= 1
    /\ ( /\ NoneInFlight
         /\ ~transactions[tid].is_active
         /\ effect(transactions[tid].amount, transactions[tid].type) # 0 )
       => Cardinality(Reversals(tid)) = 1

\* Request r stopped after its ledger write and before its balance increment.
CrashedBeforeInc(r) == requests[r].pc = "crashed" /\ requests[r].crashed_at = "inc"

\* C5 as stated: after a crash between the ledger write and the balance
\* increment, total_balance is at most the sum of the effects of the user's
\* active transactions, whatever the transaction type and the mutation.
C5_NeverOverstated ==
  \A r \in Requests :
    CrashedBeforeInc(r) =>
      users[UserOf(r)].total_balance <= ActiveEffects(UserOf(r))

\* C5 amended: with requests run one after another, total_balance differs from
\* the sum of the effects of the active transactions by exactly the adjustments
\* of the requests that crashed between ledger write and increment: it is
\* understated when those adjustments are positive and overstated when they are
\* negative.
C5_OffByUnappliedAdjustments ==
  NoneInFlight =>
    \A u \in UserIds :
      users[u].total_balance
        + Adjustments({r \in Requests : CrashedBeforeInc(r) /\ UserOf(r) = u})
      = ActiveEffects(u)

\* A crashed request with a negative adjustment has left the balance overstated.
C5_Witness ==
  /\ NoneInFlight
  /\ \E r \in Requests : CrashedBeforeInc(r) /\ requests[r].balance_change < 0
  /\ users["u1"].total_balance > ActiveEffects("u1")

\* C6: a successful create_transaction changes the user's total_balance by
\* exactly the effect of the payload (+amount, -amount, 0) and persists one new
\* transaction, active and owned by that user (requests run one after another:
\* the balance the request read when it arrived is the balance before it).
C6_CreateEffect ==
  [][ \A r \in Requests :
       /\ ( /\ requests[r].op = "create"
            /\ requests[r].pc = "insert"
            /\ requests'[r] # requests[r] )
          => /\ requests'[r].pc = "inc"
             /\ Len(transactions') = Len(transactions) + 1
             /\ SubSeq(transactions', 1, Len(transactions)) = transactions
             /\ users' = users
       /\ ( /\ requests[r].op = "create"
            /\ requests[r].pc = "inc"
            /\ requests'[r].pc = "done" )
        => /\ requests'[r].status = 201
           /\ users'[UserOf(r)].total_balance =
                requests[r].current_user.total_balance
                  + effect(requests[r].data.amount, requests[r].data.type)
           /\ \A u \in UserIds \ {UserOf(r)} : users'[u] = users[u]
           /\ transactions' = transactions
           /\ requests[r].transaction_id = Len(transactions)
           /\ transactions[Len(transactions)] =
                [id |-> Len(transactions), user_id |-> UserOf(r),
                 amount |-> requests[r].data.amount, type |-> requests[r].data.type,
                 category_id |-> requests[r].data.category_id,
                 transaction_date |-> IsoFormat(requests[r].data.transaction_date),
                 is_active |-> TRUE]
    ]_vars

\* A transfer and an expense have both been created.
C6_Witness ==
  \E r, q \in Requests :
    /\ requests[r].op = "create" /\ Succeeded(r) /\ requests[r].balance_change < 0
    /\ requests[q].op = "create" /\ Succeeded(q)
    /\ transactions[requests[q].transaction_id].type = "transfer"
    /\ Latest(q)

\* The stored amount and type of the request's transaction.
StoredEffect(txs, tid) == effect(txs[tid].amount, txs[tid].type)

\* C7: a successful update_transaction changes total_balance by exactly
\* effect(post-update amount, type) - effect(pre-update stored amount, type)
\* (requests run one after another).
C7_UpdateEffect ==
  [][ \A r \in Requests :
        ( /\ requests[r].op = "update"
          /\ InFlight(r)
          /\ requests'[r].pc = "done"
          /\ requests'[r].status = 200 )
        => users'[UserOf(r)].total_balance =
             requests[r].current_user.total_balance
               + StoredEffect(transactions', requests[r].transaction_id)
               - (IF requests[r].pc = "inc"
                  THEN effect(requests[r].old.amount, requests[r].old.type)
                  ELSE StoredEffect(transactions, requests[r].transaction_id))
    ]_vars

\* An update that turned an income into an expense of the same amount a has
\* subtracted 2a.
C7_Witness ==
  \E r \in Requests :
    /\ requests[r].op = "update" /\ Succeeded(r) /\ Latest(r)
    /\ transactions[requests[r].transaction_id].type = "expense"
    /\ requests[r].balance_change = 0 - 2 * transactions[requests[r].transaction_id].amount

\* Request r created a transaction and request r + 1, the next one, deletes it.
CreateThenDelete(r) ==
  /\ requests[r].op = "create" /\ Succeeded(r)
  /\ requests[r + 1].op = "delete"
  /\ requests[r + 1].pc = "done"
  /\ UserOf(r + 1) = UserOf(r)
  /\ requests[r + 1].transaction_id = requests[r].transaction_id
  /\ Latest(r + 1)

\* C8: creating a transaction and then soft-deleting it, with no request in
\* between, restores total_balance to its value before the create, and the
\* delete answers 204.
C8_DeleteUndoesCreate ==
  \A r \in 1..(MaxRequests - 1) :
    CreateThenDelete(r) =>
      /\ requests[r + 1].status = 204
      /\ users[UserOf(r)].total_balance = requests[r].current_user.total_balance
      /\ ~transactions[requests[r].transaction_id].is_active

\* An expense created on a non-zero balance, then deleted.
C8_Witness ==
  \E r \in 1..(MaxRequests - 1) :
    /\ CreateThenDelete(r)
    /\ requests[r].balance_change < 0
    /\ requests[r].current_user.total_balance # 0

\* The transaction id names no transaction, one of another user, or a
\* soft-deleted one.
NotFoundCase(tid, uid) ==
  \/ tid \notin 1..Len(transactions)
  \/ transactions[tid].user_id # uid
  \/ ~transactions[tid].is_active

\* C9: an update or delete request whose transaction id does not exist, belongs
\* to another user or is already soft-deleted ends with 404 and leaves every
\* balance and every stored transaction unchanged.
C9_NotFoundNoChange ==
  [][ \A r \in Requests :
        ( /\ requests[r].op \in {"update", "delete"}
          /\ requests[r].pc = "find"
          /\ requests'[r] # requests[r]
          /\ NotFoundCase(requests[r].transaction_id, UserOf(r)) )
        => /\ requests'[r].pc = "done"
           /\ requests'[r].status = 404
           /\ requests'[r].balance_change = 0
           /\ users' = users
           /\ transactions' = transactions
    ]_vars

\* A request on another user's active transaction was answered 404.
C9_Witness ==
  \E r \in Requests :
    /\ requests[r].op \in {"update", "delete"}
    /\ requests[r].pc = "done" /\ requests[r].status = 404
    /\ requests[r].transaction_id \in 1..Len(transactions)
    /\ transactions[requests[r].transaction_id].user_id # UserOf(r)
    /\ transactions[requests[r].transaction_id].is_active
    /\ users[transactions[requests[r].transaction_id].user_id].total_balance # 0

\* category_id references an active category owned by the user.
ActiveOwnCategory(cid, uid) ==
  /\ cid \in CategoryIds
  /\ categories[cid].user_id = uid
  /\ categories[cid].is_active

\* C10 as stated: a create_transaction request that supplies a category id
\* which does not reference an active category of the requesting user is
\* rejected: it never persists a transaction.
C10_UnknownCategoryRejected ==
  \A r \in Requests :
    ( /\ requests[r].op = "create"
      /\ requests[r].pc = "inc"
      /\ requests[r].data.category_id # None )
    => ActiveOwnCategory(requests[r].data.category_id, UserOf(r))

\* C10 amended: the same for a non-empty category id: the request goes through
\* the category lookup, and when the lookup fails it ends with 400 having
\* persisted nothing and adjusted no balance.
C10_NonEmptyUnknownCategoryRejected ==
  [][ \A r \in Requests :
        /\ ( /\ requests[r].pc = "idle"
             /\ requests'[r].op = "create"
             /\ requests'[r].data.category_id \notin {None, ""} )
           => requests'[r].pc = "validate"
        /\ ( /\ requests[r].op = "create"
             /\ requests[r].pc = "validate"
             /\ requests'[r] # requests[r]
             /\ ~ActiveOwnCategory(requests[r].data.category_id, UserOf(r)) )
           => /\ requests'[r].pc = "done"
              /\ requests'[r].status = 400
              /\ requests'[r].transaction_id = NoId
              /\ requests'[r].balance_change = 0
              /\ users' = users
              /\ transactions' = transactions
    ]_vars

\* After the user's category was deleted, one creation was rejected and another
\* was accepted.
C10_Witness ==
  /\ ~categories["c1"].is_active
  /\ \E r, q \in Requests :
       /\ requests[r].op = "create" /\ requests[r].pc = "done"
       /\ requests[r].status = 400 /\ requests[r].transaction_id = NoId
       /\ requests[q].op = "create" /\ Succeeded(q)
  /\ Len(transactions) = 1

\* Request r takes a step.
Acts(r) == requests'[r] # requests[r]

\* Nothing that belongs to user b changes: neither the balance nor a stored
\* transaction, and no transaction of b is added.
OwnedUnchanged(b) ==
  /\ users'[b] = users[b]
  /\ Len(transactions') >= Len(transactions)
  /\ \A i \in 1..Len(transactions') :
       IF i <= Len(transactions)
       THEN transactions[i].user_id = b => transactions'[i] = transactions[i]
       ELSE transactions'[i].user_id # b

\* C11: no step of a request issued by user A changes a transaction owned by
\* another user B, or B's total_balance, whatever the interleaving of the two
\* users' requests and whatever transaction id A names.
C11_OtherUserUntouched ==
  [][\A r \in Requests :
       Acts(r) =>
         \A b \in UserIds \ {requests'[r].current_user.id} : OwnedUnchanged(b)]_vars

\* User u2 named the stored transaction of u1 in an update or delete, was
\* answered 404, and the transaction and the balance of u1 are as u1 left them.
C11_Witness ==
  /\ Len(transactions) >= 1 /\ transactions[1].user_id = "u1"
  /\ transactions[1].is_active
  /\ users["u1"].total_balance = ActiveEffects("u1")
  /\ \E r \in Requests :
       /\ requests[r].pc = "done" /\ requests[r].op \in {"update", "delete"}
       /\ UserOf(r) = "u2" /\ requests[r].transaction_id = 1
       /\ requests[r].status = 404
  /\ \E q \in Requests : InFlight(q) /\ UserOf(q) = "u1"

\* The value of field k after an update carrying payload data: the payload's
\* value if it has one, the value of doc otherwise.
FieldAfter(doc, data, k) == IF k \in DOMAIN data THEN data[k] ELSE doc[k]

\* Request r writes the fields of its update ($set) in this step.
UpdateWrites(r) ==
  requests[r].op = "update" /\ requests[r].pc = "set" /\ Acts(r)

\* The adjustment request r computed in this step (0 when it issues no $inc).
AdjustmentOf(r) ==
  IF requests'[r].pc = "inc" THEN requests'[r].balance_change ELSE 0

\* C12: an update applies new_effect - effect(the values it read), where
\* new_effect comes from the values it read overlaid with its payload, while
\* the stored fields are last-write-wins (the payload overlaid on what is
\* stored at the time of the write); an update whose read is still current
\* adjusts the balance by exactly the change of the stored effect.
C12_UpdateAgainstRead ==
  [][\A r \in Requests :
       UpdateWrites(r) =>
         LET tid  == requests[r].transaction_id
             read == requests[r].transaction
             data == requests[r].data
         IN  /\ AdjustmentOf(r) =
                  effect(FieldAfter(read, data, "amount"), FieldAfter(read, data, "type"))
                    - effect(read.amount, read.type)
             /\ (AdjustmentOf(r) = 0) =
                  (requests'[r].pc = "done" /\ requests'[r].status = 200)
             /\ \A k \in DOMAIN transactions[tid] :
                  transactions'[tid][k] = FieldAfter(transactions[tid], data, k)
             /\ (read = transactions[tid]) =>
                  AdjustmentOf(r) =
                    StoredEffect(transactions', tid) - StoredEffect(transactions, tid)]_vars

\* Two updates of the stored transaction overlapped and both completed, and
\* the balance is not the sum of the effects of the active transactions,
\* which it is after the same two updates in either serial order.
C12_Witness ==
  /\ NoneInFlight /\ overlap
  /\ \A r \in 1..2 :
       requests[r].op = "update" /\ requests[r].transaction_id = 1 /\ Succeeded(r)
  /\ users["u1"].total_balance # ActiveEffects("u1")

\* Payload data carries an amount that is zero or negative.
NonPositiveAmount(data) ==
  data # NoDoc /\ "amount" \in DOMAIN data /\ data.amount <= 0

\* C20: every stored transaction has amount > 0: a create or update whose
\* amount is zero or negative is rejected (422) on arrival without any change
\* to the store, and no step stores a non-positive amount.
C20_AmountPositive ==
  [][/\ \A i \in 1..Len(transactions') : transactions'[i].amount > 0
     /\ \A r \in Requests :
          (Acts(r) /\ NonPositiveAmount(requests'[r].data)) =>
            /\ requests[r].pc = "idle"
            /\ requests'[r].pc = "done" /\ requests'[r].status = 422
            /\ UNCHANGED <<users, categories, transactions>>]_vars

\* An update of the stored transaction to amount 0 and a create with a
\* negative amount were both rejected, and the stored amount is positive.
C20_Witness ==
  /\ Len(transactions) = 1 /\ transactions[1].amount > 0
  /\ \E r, q \in Requests :
       /\ requests[r].op = "update" /\ requests[r].status = 422
       /\ requests[r].transaction_id = 1 /\ requests[r].data.amount = 0
       /\ requests[q].op = "create" /\ requests[q].status = 422
       /\ requests[q].data.amount < 0

\* The instant an isoformat string denotes: its wall-clock fields minus its offset.
InstantOf(iso) ==
  LET offset == IF iso[4] <= MaxOffset THEN iso[4] ELSE MaxOffset - iso[4]
  IN  FirstOfMonth(iso[1], iso[2]) + iso[3] - offset

\* The month window of a report, as instants: from the first instant of the
\* month up to, not including, the first instant of the next month.
InMonth(instant, month, year) ==
  /\ FirstOfMonth(year, month) <= instant
  /\ instant < FirstOfMonth(year, month) + MonthTicks

\* The month and year a finished report was computed for.
MonthOf(r) == IF requests[r].query.month = Omitted THEN 12 ELSE requests[r].query.month

YearOf(r) == IF requests[r].query.year = Omitted THEN 2024 ELSE requests[r].query.year

\* The stored transactions a report of request r is to select: those of the
\* user, active, dated in the month.
Selected(r) ==
  {i \in 1..Len(transactions) :
     /\ transactions[i].user_id = UserOf(r)
     /\ transactions[i].is_active
     /\ InMonth(InstantOf(transactions[i].transaction_date), MonthOf(r), YearOf(r))}

\* Sum of the amounts of the stored transactions whose position is in S.
RECURSIVE AmountSum(_)
AmountSum(S) ==
  IF S = {} THEN 0
  ELSE LET i == CHOOSE x \in S : TRUE
       IN  transactions[i].amount + AmountSum(S \ {i})

OfType(S, type) == {i \in S : transactions[i].type = type}

SummaryDone(r) == requests[r].pc = "done" /\ requests[r].op = "summary"

\* C13: the monthly summary returns the sums of the selected incomes and
\* expenses, their difference, and the number of all selected transactions,
\* transfers included; with nothing selected it is all zeros, and it is
\* always answered 200.
C13_SummaryTotals ==
  \A r \in Requests :
    SummaryDone(r) =>
      LET body == requests[r].response
      IN  /\ requests[r].status = 200
          /\ body.total_income = AmountSum(OfType(Selected(r), "income"))
          /\ body.total_expense = AmountSum(OfType(Selected(r), "expense"))
          /\ body.net_balance = body.total_income - body.total_expense
          /\ body.transaction_count = Cardinality(Selected(r))
          /\ Selected(r) = {} =>
                /\ body.total_income = 0 /\ body.total_expense = 0
                /\ body.net_balance = 0 /\ body.transaction_count = 0

\* A summary over an income and a transfer, and one over nothing.
C13_Witness ==
  /\ \E r \in Requests :
       /\ SummaryDone(r)
       /\ OfType(Selected(r), "income") # {} /\ OfType(Selected(r), "transfer") # {}
       /\ requests[r].response.transaction_count = 2
  /\ \E r \in Requests :
       /\ SummaryDone(r) /\ Selected(r) = {}
       /\ Len(transactions) = MaxStored

ByCategoryDone(r) == requests[r].pc = "done" /\ requests[r].op = "by_category"

\* Number of transactions the groups of a category breakdown account for.
RECURSIVE CountSum(_, _)
CountSum(expenses, n) ==
  IF n = 0 THEN 0 ELSE CountSum(expenses, n - 1) + expenses[n].transaction_count

\* Every stored transaction_date is written in UTC.
AllDatesUtc ==
  \A i \in 1..Len(transactions) : transactions[i].transaction_date[4] = 0

\* The last report answered covers the transactions dated in its month.
ReportsByInstant ==
  \A r \in Requests :
    /\ (SummaryDone(r) /\ Latest(r)) =>
         requests[r].response.transaction_count = Cardinality(Selected(r))
    /\ (ByCategoryDone(r) /\ Latest(r)) =>
         CountSum(requests[r].response.expenses, Len(requests[r].response.expenses))
           = Cardinality(OfType(Selected(r), "expense"))

\* C14 as stated: a report selects exactly the transactions whose
\* transaction_date, as an instant, lies in [first instant of the month, first
\* instant of the next month), for every transaction_date create and update
\* accept.
C14_WindowByInstant == ReportsByInstant

\* C14 restricted: the same, while every stored transaction_date is in UTC.
C14_WindowByInstantUtc == AllDatesUtc => ReportsByInstant

\* Sum of the total amounts, and of the percentage numerators, of the first n
\* groups of a category breakdown.
RECURSIVE TotalSum(_, _)
TotalSum(expenses, n) ==
  IF n = 0 THEN 0 ELSE TotalSum(expenses, n - 1) + expenses[n].total_amount

RECURSIVE PercentSum(_, _)
PercentSum(expenses, n) ==
  IF n = 0 THEN 0 ELSE PercentSum(expenses, n - 1) + expenses[n].percentage.num

\* The expenses a breakdown of request r is to select, and those among them
\* that carry category_id c.
SelectedExpenses(r) == OfType(Selected(r), "expense")

InCategory(r, c) == {i \in SelectedExpenses(r) : transactions[i].category_id = c}

\* A transaction without a category: category_id null or empty.
Uncategorized(i) == ~Truthy(transactions[i].category_id)

\* The breakdown of request r partitions the selected expenses by category_id
\* and its figures add up.
BreakdownAddsUp(r) ==
  LET body == requests[r].response
      expenses == body.expenses
      n == Len(expenses)
  IN  /\ body.total_expense = AmountSum(SelectedExpenses(r))
      /\ TotalSum(expenses, n) = body.total_expense
      /\ CountSum(expenses, n) = Cardinality(SelectedExpenses(r))
      /\ \A k \in 1..n :
           /\ InCategory(r, expenses[k].category_id) # {}
           /\ expenses[k].total_amount = AmountSum(InCategory(r, expenses[k].category_id))
           /\ expenses[k].transaction_count =
                Cardinality(InCategory(r, expenses[k].category_id))
           /\ expenses[k].percentage.den = body.total_expense
           /\ \A j \in 1..n : expenses[j].category_id = expenses[k].category_id => j = k
      /\ \A i \in SelectedExpenses(r) :
           \E k \in 1..n : expenses[k].category_id = transactions[i].category_id
      /\ body.total_expense > 0 => PercentSum(expenses, n) = 100 * body.total_expense
      /\ SelectedExpenses(r) = {} => (expenses = <<>> /\ body.total_expense = 0)

\* The transactions without a category are all in one group, the only one
\* named "Sem categoria".
OneUncategorizedBucket(r) ==
  LET expenses == requests[r].response.expenses
      sem == {k \in 1..Len(expenses) : expenses[k].category_name = "Sem categoria"}
  IN  /\ Cardinality(sem) <= 1
      /\ \A i \in SelectedExpenses(r) :
           Uncategorized(i) =>
             \E k \in sem : expenses[k].category_id = transactions[i].category_id

\* C15 as stated: the category breakdown selects the user's active expenses
\* of the month, partitions them by category_id with every transaction
\* without a category in the one bucket named "Sem categoria", and its
\* totals, counts and percentages add up (empty list and 0 when nothing is
\* selected).
C15_BreakdownPartition ==
  \A r \in Requests :
    ByCategoryDone(r) => (BreakdownAddsUp(r) /\ OneUncategorizedBucket(r))

\* C15 without the single bucket: the partition by category_id and the sums.
C15_BreakdownAddsUp ==
  \A r \in Requests : ByCategoryDone(r) => BreakdownAddsUp(r)

\* The position in the store of the first selected expense with category_id c:
\* the order in which the grouping meets the categories.
FirstSeen(r, c) ==
  CHOOSE i \in InCategory(r, c) : \A j \in InCategory(r, c) : i <= j

\* C17: the groups of the category breakdown are listed by total_amount
\* descending, groups of equal total_amount in the order in which the
\* grouping first met their category.
C17_SortedStable ==
  \A r \in Requests :
    ByCategoryDone(r) =>
      LET expenses == requests[r].response.expenses
      IN  \A j, k \in 1..Len(expenses) :
            j < k =>
              /\ expenses[j].total_amount >= expenses[k].total_amount
              /\ expenses[j].total_amount = expenses[k].total_amount =>
                   FirstSeen(r, expenses[j].category_id)
                     < FirstSeen(r, expenses[k].category_id)

\* A breakdown with two groups of equal total_amount, listed in the order of
\* the store.
C17_Witness ==
  \E r \in Requests :
    /\ ByCategoryDone(r)
    /\ Len(requests[r].response.expenses) = 2
    /\ requests[r].response.expenses[1].total_amount
         = requests[r].response.expenses[2].total_amount
    /\ requests[r].response.expenses[1].category_id = transactions[1].category_id

\* Request r returns its category breakdown in this step.
BreakdownReturns(r) ==
  /\ requests[r].op = "by_category" /\ requests[r].pc = "categories"
  /\ requests'[r].pc = "done"

\* Category c has been soft-deleted.
DeletedCategory(c) == c \in DOMAIN categories /\ ~categories[c].is_active

\* The soft-deletion of a category leaves the transactions as they are.
ReferenceKept == categories' # categories => transactions' = transactions

\* C16 as stated: after a category is soft-deleted the transactions that
\* reference it keep their category_id, and the category breakdown reports
\* them under the name "Sem categoria", not under the deleted category's name.
C16_DeletedCategoryUncategorized ==
  [][/\ ReferenceKept
     /\ \A r \in Requests :
          BreakdownReturns(r) =>
            LET expenses == requests'[r].response.expenses
            IN  \A k \in 1..Len(expenses) :
                  DeletedCategory(expenses[k].category_id) =>
                    expenses[k].category_name = "Sem categoria"]_vars

\* C16, first half: the transactions keep their category_id.
C16_ReferenceKept == [][ReferenceKept]_vars

Reports == {"summary", "by_category"}

\* This step is a step of request r, and r asks for a report.
ReportStep(r) == requests'[r] # requests[r] /\ requests'[r].op \in Reports

\* C18: a step of the monthly summary or of the category breakdown, wherever
\* it falls among the store operations of the mutations in flight, leaves
\* every user (total_balance included), category and transaction record as
\* it was.
C18_ReportsReadOnly ==
  [][\A r \in Requests :
       ReportStep(r) =>
         /\ users' = users
         /\ categories' = categories
         /\ transactions' = transactions]_vars

\* C18: a report has run from begin to end while a mutation begun before it
\* stands between its write to the transactions and its write to the balance.
C18_Witness ==
  \E m \in Requests, r \in Requests :
    /\ m < r
    /\ requests[m].op \in {"create", "update", "delete"} /\ requests[m].pc = "inc"
    /\ requests[r].op \in Reports /\ requests[r].pc = "done"

\* The handlers that may adjust a balance.
TransactionMutations == {"create", "update", "delete"}

\* This step is the balance adjustment of a transaction request of user u.
AdjustsBalanceOf(u) ==
  \E r \in Requests :
    /\ requests[r].op \in TransactionMutations
    /\ requests[r].current_user.id = u
    /\ requests[r].pc = "inc" /\ requests'[r].pc = "done"

\* C19: the total_balance of a user changes only in the balance adjustment
\* of that user's create_transaction, update_transaction or
\* delete_transaction; a user that registers is stored with total_balance 0;
\* no step of register, login, get_me, the category handlers, the listing
\* or the reports changes any total_balance.
C19_BalanceChangedOnlyByTransactions ==
  [][/\ \A u \in DOMAIN users :
          /\ u \in DOMAIN users'
          /\ users'[u].total_balance # users[u].total_balance => AdjustsBalanceOf(u)
     /\ \A u \in DOMAIN users' \ DOMAIN users : users'[u].total_balance = 0
     /\ \A r \in Requests :
          (requests'[r] # requests[r] /\ requests'[r].op \notin TransactionMutations)
            => \A u \in DOMAIN users :
                 users'[u].total_balance = users[u].total_balance]_vars

\* C19: a user has registered and is stored with balance 0, and u1, whose
\* balance a transaction has moved away from 0, has logged in since.
C19_Witness ==
  /\ DOMAIN users # UserIds
  /\ \A u \in DOMAIN users \ UserIds : users[u].total_balance = 0
  /\ users["u1"].total_balance # 0
  /\ users["u1"].last_login # NeverLoggedIn

\* C21: no step removes a transaction or a category from the store, and a
\* transaction or category whose is_active is false keeps it false in every
\* later state.
C21_NeverRemovedNeverRevived ==
  [][/\ Len(transactions') >= Len(transactions)
     /\ \A i \in 1..Len(transactions) :
          /\ transactions'[i].id = transactions[i].id
          /\ ~transactions[i].is_active => ~transactions'[i].is_active
     /\ \A c \in DOMAIN categories :
          /\ c \in DOMAIN categories'
          /\ ~categories[c].is_active => ~categories'[c].is_active]_vars

\* C21: a transaction and a category are soft-deleted and still in the store,
\* and an update that had read the transaction before its deletion has written
\* its fields since.
C21_Witness ==
  /\ ~categories["c1"].is_active
  /\ \E u \in Requests, d \in Requests :
       /\ u < d
       /\ requests[u].op = "update" /\ requests[u].pc = "done"
       /\ requests[u].status = 200
       /\ requests[d].op = "delete" /\ requests[d].pc = "done"
       /\ requests[d].status = 204
       /\ requests[d].transaction_id = requests[u].transaction_id
       /\ ~transactions[requests[u].transaction_id].is_active

\* C22: the $set of an update gives every supplied field of its transaction
\* the supplied value and leaves every other field of it (id, user_id and
\* is_active among them) and every other transaction as stored; an update
\* that supplies no field ends at its lookup, having written neither the
\* transactions nor the users.
C22_OnlySuppliedFields ==
  [][\A r \in Requests :
       /\ UpdateWrites(r) =>
            LET tid  == requests[r].transaction_id
                data == UpdateData(requests[r].data)
            IN  /\ DOMAIN data \subseteq {"amount", "type", "category_id", "transaction_date"}
                /\ Len(transactions') = Len(transactions)
                /\ \A i \in 1..Len(transactions) :
                     \A k \in DOMAIN transactions[i] :
                       transactions'[i][k] =
                         IF i = tid /\ k \in DOMAIN data THEN data[k]
                         ELSE transactions[i][k]
       /\ ( /\ requests[r].op = "update" /\ requests[r].pc = "find"
            /\ requests[r].data = <<>> /\ Acts(r) )
          => /\ requests'[r].pc = "done"
             /\ transactions' = transactions
             /\ users' = users]_vars

\* C22: an update that supplied a category_id and no date has completed: the
\* stored transaction has the new category and the date it was created with;
\* and an update of it that supplied nothing has completed after it.
C22_Witness ==
  /\ \A r \in Requests :
       /\ requests[r].op = "update" /\ Succeeded(r)
       /\ requests[r].transaction_id = 1
  /\ requests[2].balance_change = 0
  /\ transactions[1].category_id = "c2"
  /\ transactions[1].transaction_date = IsoFormat(Now)
  /\ transactions[1].type = "transfer"

\* What the caller of request r sees and what stays of r when its lookup
\* raises HTTPException(404, "Transaction not found"): a record made of the
\* request alone.
NotFoundOutcome(r) ==
  [IdleRequest EXCEPT !.pc = "done", !.op = requests[r].op,
     !.current_user = requests[r].current_user,
     !.transaction_id = requests[r].transaction_id, !.status = 404]

\* Which of the cases the lookup of (tid, uid) falls in.
LookupCase(tid, uid) ==
  IF tid \notin 1..Len(transactions) THEN "missing"
  ELSE IF transactions[tid].user_id # uid THEN "foreign"
  ELSE IF ~transactions[tid].is_active THEN "deleted"
  ELSE "found"

AtLookup(r) == requests[r].op \in {"update", "delete"} /\ requests[r].pc = "find"

\* C23: the lookup of an update or delete request that names a missing
\* transaction, another user's transaction or a soft-deleted one leaves the
\* store unchanged and answers with an outcome that is made of the request
\* alone; and it is, the transaction id apart, the outcome that any other
\* request of the same caller and operation, waiting at its lookup in another
\* of the three cases, is answered with.
C23_NotFoundIndistinguishable ==
  [][\A a \in Requests :
       ( /\ AtLookup(a) /\ Acts(a)
         /\ LookupCase(requests[a].transaction_id, UserOf(a)) # "found" )
       => /\ requests'[a] = NotFoundOutcome(a)
          /\ UNCHANGED <<users, categories, transactions>>
          /\ \A b \in Requests \ {a} :
               ( /\ AtLookup(b)
                 /\ requests[b].op = requests[a].op
                 /\ UserOf(b) = UserOf(a)
                 /\ LookupCase(requests[b].transaction_id, UserOf(b))
                      \notin {"found", LookupCase(requests[a].transaction_id, UserOf(a))} )
               => [requests'[a] EXCEPT !.transaction_id = NoId]
                    = [NotFoundOutcome(b) EXCEPT !.transaction_id = NoId]]_vars

\* C23: two requests of u1 for the same operation, one on the transaction of
\* u2 and one on the soft-deleted transaction, have been answered, and the
\* answers differ in the transaction id only.
C23_Witness ==
  /\ requests[1].pc = "done" /\ requests[2].pc = "done"
  /\ requests[1].op = requests[2].op
  /\ LookupCase(requests[1].transaction_id, "u1") = "foreign"
  /\ LookupCase(requests[2].transaction_id, "u1") = "deleted"
  /\ requests[1].status = 404
  /\ [requests[1] EXCEPT !.transaction_id = NoId]
       = [requests[2] EXCEPT !.transaction_id = NoId]

\* The program counters at which the ledger write of a request is still to come.
BeforeLedgerWrite == {"validate", "insert", "find", "set"}

\* The ledger write of request r is in the store.
LedgerWritten(r) ==
  LET tid == requests[r].transaction_id
  IN  /\ tid \in 1..Len(transactions)
      /\ CASE requests[r].op = "create" -> transactions[tid] = requests[r].transaction
           [] requests[r].op = "update" -> transactions[tid] = requests[r].transaction
           [] requests[r].op = "delete" -> ~transactions[tid].is_active

\* C24: a balance changes only in the increment step of a request whose
\* ledger write (insert, field update, is_active := false) is already in
\* the store; a request that is aborted before its ledger write leaves the
\* balance as it was when the request arrived, and takes no step afterwards
\* (requests run one after another).
C24_LedgerWriteBeforeIncrement ==
  [][/\ \A u \in UserIds :
          users'[u] # users[u] =>
            \E r \in Requests :
              /\ Acts(r)
              /\ requests[r].pc = "inc"
              /\ UserOf(r) = u
              /\ LedgerWritten(r)
     /\ \A r \in Requests :
          /\ (requests[r].pc \in BeforeLedgerWrite /\ requests'[r].pc = "crashed")
               => /\ users' = users
                  /\ users[UserOf(r)].total_balance = requests[r].current_user.total_balance
          /\ requests[r].pc = "crashed" => requests'[r] = requests[r]]_vars

\* C24: a delete request of an income was aborted between its lookup and its
\* ledger write: the transaction is active and the balance still counts it.
C24_Witness ==
  \E r \in Requests :
    /\ requests[r].pc = "crashed" /\ requests[r].crashed_at = "set"
    /\ requests[r].op = "delete" /\ requests[r].balance_change < 0
    /\ Latest(r)
    /\ transactions[requests[r].transaction_id].is_active
    /\ users[UserOf(r)].total_balance = requests[r].current_user.total_balance

\* C25 as stated: a transaction that is soft-deleted keeps every stored field
\* in every later step, however update and delete requests on it interleave.
C25_DeletedIsFrozen ==
  [][\A i \in 1..Len(transactions) :
       ~transactions[i].is_active => transactions'[i] = transactions[i]]_vars

\* C25, as far as it holds: the fields of a soft-deleted transaction stay as
\* they are as long as no update or delete request on a transaction has
\* overlapped another one on the same transaction.
C25_FrozenWhenDisjoint ==
  [][~overlap' =>
       \A i \in 1..Len(transactions) :
         ~transactions[i].is_active => transactions'[i] = transactions[i]]_vars

\* C26 as stated: in every state, a transaction whose category_id is not null
\* references a category record that belongs to the owner of the transaction.
C26_CategoryOfSameUser ==
  \A i \in 1..Len(transactions) :
    transactions[i].category_id # None =>
      /\ transactions[i].category_id \in DOMAIN categories
      /\ categories[transactions[i].category_id].user_id = transactions[i].user_id

\* C26, as far as it holds: a transaction as create_transaction stores it has
\* no category (null or the empty string) or a category of its owner.
C26_CreatedWithOwnCategory ==
  [][\A r \in Requests :
       (requests[r].op = "create" /\ requests[r].pc = "insert" /\ Acts(r))
         => LET t == transactions'[Len(transactions')]
            IN  Truthy(t.category_id) =>
                  /\ t.category_id \in DOMAIN categories
                  /\ categories[t.category_id].user_id = t.user_id]_vars

\* C27 as stated: no two user records share an email, also when register
\* requests for the same new email run in parallel.
C27_EmailsUnique ==
  \A u \in DOMAIN users, v \in DOMAIN users :
    u # v => users[u].email # users[v].email

\* C27, as far as it holds: a register request whose lookup finds its email
\* registered is answered 400 and inserts no user.
C27_RegisteredEmailRejected ==
  [][\A r \in Requests :
       ( /\ requests[r].op = "register" /\ requests[r].pc = "find" /\ Acts(r)
         /\ \E u \in DOMAIN users : users[u].email = requests[r].data.email )
       => /\ requests'[r].pc = "done" /\ requests'[r].status = 400
          /\ users' = users]_vars

\* Request r issues its update_one on the user record in this step.
WritesUser(r) ==
  /\ requests[r].op \in TransactionMutations
  /\ requests[r].pc = "inc"
  /\ Acts(r)

\* C28 as stated: a mutation whose balance adjustment is zero (a transfer
\* created or deleted, an update whose new effect equals the old one) issues
\* no write to the user record.
C28_ZeroAdjustmentNoWrite ==
  [][\A r \in Requests : WritesUser(r) => requests[r].balance_change # 0]_vars

\* C28, as far as it holds: update_transaction and delete_transaction issue
\* no write to the user record when their adjustment is zero.
C28_UpdateDeleteShortCircuit ==
  [][\A r \in Requests :
       (WritesUser(r) /\ requests[r].op # "create")
         => requests[r].balance_change # 0]_vars

====
